---------------------------- MODULE Spec2Model ----------------------------
(***************************************************************************)
(* Model of src/cython_recommendations.pyx: the three numeric routines     *)
(* compute_user_similarity_matrix, compute_product_similarity and          *)
(* compute_dot_product_batch, one action per statement group of each loop. *)
(*                                                                         *)
(* Numbers.  Array entries are small integers and every sum and product is *)
(* exact.  sqrt(x) is kept as the exact nonnegative real [sq |-> x], and a *)
(* quotient dot / sqrt(n) as the exact real sgn * sqrt(num / den) in       *)
(* lowest terms, so two results are equal in the model exactly when they   *)
(* are equal as real numbers.  Rounding, overflow and NaN of float64 are   *)
(* outside the model.                                                      *)
(*                                                                         *)
(* Indexing.  The routines are compiled with boundscheck(False), so a read *)
(* past the end of a buffer is undefined behaviour: it yields an arbitrary *)
(* value or faults.  Both outcomes are modelled.                           *)
(***************************************************************************)
EXTENDS Integers, Sequences, FiniteSets, TLC

\* Bounds of the model: operand shapes.
MaxRows == 2
MaxCols == 2
MaxCells == 4

\* The float64 entries an operand may hold (src line 10: DTYPE = np.float64).
Values == {-1, 0, 2}

VARIABLES
    user_product_matrix,  \* first operand of compute_user_similarity_matrix
    user_vector,          \* second operand of compute_user_similarity_matrix
    user,                 \* frame (locals and position) of that call
    liked_features,       \* first operand of compute_product_similarity
    product_features,     \* second operand of compute_product_similarity
    product,              \* frame of that call
    matrix_a,             \* first operand of compute_dot_product_batch
    matrix_b,             \* second operand of compute_dot_product_batch
    batch,                \* frame of that call
    par,                  \* the parallel run of an outer loop: routine and phase
    workers,              \* row index -> frame of the worker of that row
    shared                \* result array the row workers write

inputs == <<user_product_matrix, user_vector, liked_features,
            product_features, matrix_a, matrix_b>>
frames == <<user, product, batch>>
parvars == <<par, workers, shared>>
vars == <<user_product_matrix, user_vector, user, liked_features,
          product_features, product, matrix_a, matrix_b, batch,
          par, workers, shared>>

-----------------------------------------------------------------------------
(* Arrays *)

\* A 2-D ndarray: its shape and its rows.
Matrix(r, c) == {[shape |-> <<r, c>>, data |-> d] : d \in [1..r -> [1..c -> Values]]}

Shapes == {s \in (0..MaxRows) \X (0..MaxCols) : s[1] * s[2] <= MaxCells}

Matrices == UNION {Matrix(s[1], s[2]) : s \in Shapes}

\* A 1-D ndarray.
Vectors == UNION {[1..n -> Values] : n \in 0..MaxCols}

NoMatrix == [shape |-> <<0, 0>>, data |-> <<>>]
NoVector == <<>>

\* ndarray.shape[0], ndarray.shape[1]
Shape0(m) == m.shape[1]
Shape1(m) == m.shape[2]

\* np.zeros(n), np.zeros((n, k))
Real0 == [sgn |-> 0, num |-> 0, den |-> 1]
Zeros1(n) == [x \in 1..n |-> Real0]
\* Mutant: the result is allocated with its dimensions exchanged.
Zeros2Transposed(n, k) ==
    [shape |-> <<k, n>>, data |-> [x \in 1..k |-> [y \in 1..n |-> 0]]]
Zeros2(n, k) == [shape |-> <<n, k>>, data |-> [x \in 1..n |-> [y \in 1..k |-> 0]]]

\* vec[j] with bounds checking off: the entry, or any value when j is past the end.
ReadVector(vec, j) == IF j < Len(vec) THEN {vec[j + 1]} ELSE Values

\* m[i, j] with bounds checking off.
ReadMatrix(m, i, j) ==
    IF i < Shape0(m) /\ j < Shape1(m) THEN {m.data[i + 1][j + 1]} ELSE Values

VectorInBounds(vec, j) == j < Len(vec)
MatrixInBounds(m, i, j) == i < Shape0(m) /\ j < Shape1(m)

-----------------------------------------------------------------------------
(* Exact arithmetic *)

Abs(x) == IF x < 0 THEN -x ELSE x
Sign(x) == IF x < 0 THEN -1 ELSE IF x = 0 THEN 0 ELSE 1

RECURSIVE GCD(_, _)
GCD(a, b) == IF b = 0 THEN a ELSE GCD(b, a % b)

\* libc sqrt: the nonnegative real whose square is x.
Sqrt(x) == [sq |-> x]
\* norm == 0.0, norm > 0.0, norm * norm
NormIsZero(n) == n.sq = 0
NormPositive(n) == n.sq > 0
NormMul(a, b) == [sq |-> a.sq * b.sq]

\* dot / norm for norm # 0: the real number, in lowest terms.
Divide(dot, norm) ==
    LET g == GCD(dot * dot, norm.sq)
    IN [sgn |-> Sign(dot), num |-> (dot * dot) \div g, den |-> norm.sq \div g]

-----------------------------------------------------------------------------
(* compute_user_similarity_matrix *)

IdleFrame == [pc |-> "idle"]

UserStart ==
    [pc |-> "start", num_users |-> 0, num_products |-> 0, similarities |-> <<>>,
     i |-> 0, j |-> 0, dot_product |-> 0, norm_other_sq |-> 0,
     user_norm_sq |-> 0, norm_user |-> Sqrt(0)]

\* Mutant: the column bound is taken from the vector.
UserNumProductsOfVector == Len(user_vector)
\* line 34
UserNumProducts == Shape1(user_product_matrix)

\* lines 33-39: shapes read, result allocated, accumulator zeroed.
UserEnter ==
    /\ user.pc = "start"
    /\ user' = [user EXCEPT !.pc = "norm",
                            !.num_users = Shape0(user_product_matrix),
                            !.num_products = UserNumProducts,
                            !.similarities = Zeros1(Shape0(user_product_matrix)),
                            !.user_norm_sq = 0, !.j = 0]
    /\ UNCHANGED <<inputs, product, batch, parvars>>

\* line 43
UserNormAccumulate(f, v) ==
    [f EXCEPT !.user_norm_sq = @ + v * v, !.j = @ + 1]

\* lines 42-43: one iteration of the norm loop.
UserNormStep ==
    /\ user.pc = "norm"
    /\ user.j < user.num_products
    /\ \E v \in ReadVector(user_vector, user.j) :
          user' = UserNormAccumulate(user, v)
    /\ UNCHANGED <<inputs, product, batch, parvars>>

\* lines 44-47: norm of the reference vector; the early return on a zero norm.
UserNormCheck ==
    /\ user.pc = "norm"
    /\ user.j = user.num_products
    /\ LET norm_user == Sqrt(user.user_norm_sq)
       IN user' = [user EXCEPT !.norm_user = norm_user,
                               !.i = 0,
                               !.pc = IF NormIsZero(norm_user) THEN "returned" ELSE "row"]
    /\ UNCHANGED <<inputs, product, batch, parvars>>

\* Mutant: the accumulators are not reset for the row.
UserRowResetMissing(f) == [f EXCEPT !.j = 0, !.pc = "inner"]
\* lines 51-52
UserRowReset(f) ==
    [f EXCEPT !.dot_product = 0, !.norm_other_sq = 0, !.j = 0, !.pc = "inner"]

\* lines 50-52: the outer loop takes row i.
UserRowBegin ==
    /\ user.pc = "row"
    /\ user.i < user.num_users
    /\ user' = UserRowReset(user)
    /\ UNCHANGED <<inputs, product, batch, parvars>>

\* Mutant: the row norm accumulates the entry, not its square.
UserAccumulateUnsquared(f, v, m) ==
    [f EXCEPT !.dot_product = @ + v * m, !.norm_other_sq = @ + Abs(m), !.j = @ + 1]
\* lines 56-57
UserAccumulate(f, v, m) ==
    [f EXCEPT !.dot_product = @ + v * m, !.norm_other_sq = @ + m * m, !.j = @ + 1]

\* lines 55-57: one iteration of the inner loop.
UserInnerStep ==
    /\ user.pc = "inner"
    /\ user.j < user.num_products
    /\ \E v \in ReadVector(user_vector, user.j),
          m \in ReadMatrix(user_product_matrix, user.i, user.j) :
          user' = UserAccumulate(user, v, m)
    /\ UNCHANGED <<inputs, product, batch, parvars>>

\* Mutant: the division is not guarded.
UserGuardMissing(norm_other) == TRUE
\* line 62
UserGuard(norm_other) == NormPositive(norm_other)

\* lines 59-64 on frame f and result array sims: the array after the row, and
\* whether the division (cdivision is off) raised on a zero divisor.
UserRowResult(f, sims) ==
    LET norm_other == Sqrt(f.norm_other_sq)
        divisor == NormMul(f.norm_user, norm_other)
    IN IF ~UserGuard(norm_other) THEN [raised |-> FALSE, similarities |-> sims]
       ELSE IF NormIsZero(divisor) THEN [raised |-> TRUE, similarities |-> sims]
       ELSE [raised |-> FALSE,
             similarities |-> [sims EXCEPT ![f.i + 1] = Divide(f.dot_product, divisor)]]

\* Mutant: the result aliases user_vector, so storing a similarity overwrites it.
UserRowEndAliased ==
    /\ user.pc = "inner"
    /\ user.j = user.num_products
    /\ user' = [user EXCEPT !.i = @ + 1, !.pc = "row"]
    /\ user_vector' = [x \in DOMAIN user_vector |->
                          IF x = user.i + 1 THEN Sign(user.dot_product) ELSE user_vector[x]]
    /\ UNCHANGED <<user_product_matrix, liked_features, product_features, matrix_a,
                   matrix_b, product, batch, parvars>>
\* lines 59-64: the row's similarity is stored, the outer loop advances.
UserRowEnd ==
    /\ user.pc = "inner"
    /\ user.j = user.num_products
    /\ LET r == UserRowResult(user, user.similarities)
       IN user' = IF r.raised
                  THEN [user EXCEPT !.pc = "ZeroDivisionError"]
                  ELSE [user EXCEPT !.similarities = r.similarities,
                                    !.i = @ + 1, !.pc = "row"]
    /\ UNCHANGED <<inputs, product, batch, parvars>>

\* line 66
UserReturn ==
    /\ user.pc = "row"
    /\ user.i = user.num_users
    /\ user' = [user EXCEPT !.pc = "returned"]
    /\ UNCHANGED <<inputs, product, batch, parvars>>

\* lines 43, 56: the unchecked read of user_vector[j] past its end faults.
UserFault ==
    /\ user.pc \in {"norm", "inner"}
    /\ user.j < user.num_products
    /\ ~VectorInBounds(user_vector, user.j)
    /\ user' = [user EXCEPT !.pc = "fault"]
    /\ UNCHANGED <<inputs, product, batch, parvars>>

UserNext ==
    \/ UserEnter
    \/ UserNormStep
    \/ UserNormCheck
    \/ UserRowBegin
    \/ UserInnerStep
    \/ UserRowEnd
    \/ UserReturn

-----------------------------------------------------------------------------
(* compute_product_similarity *)

ProductStart ==
    [pc |-> "start", num_liked |-> 0, num_features |-> 0, similarities |-> <<>>,
     i |-> 0, j |-> 0, dot_product |-> 0, norm_liked_sq |-> 0,
     product_norm_sq |-> 0, norm_product |-> Sqrt(0)]

\* line 90
ProductNumFeatures == Shape1(liked_features)

\* lines 89-95: shapes read, result allocated, accumulator zeroed.
ProductEnter ==
    /\ product.pc = "start"
    /\ product' = [product EXCEPT !.pc = "norm",
                                  !.num_liked = Shape0(liked_features),
                                  !.num_features = ProductNumFeatures,
                                  !.similarities = Zeros1(Shape0(liked_features)),
                                  !.product_norm_sq = 0, !.j = 0]
    /\ UNCHANGED <<inputs, user, batch, parvars>>

\* Mutant: the reference entry is read at column 0 whatever j is.
ProductReferenceColumn0(j) == ReadMatrix(product_features, 0, 0)
\* lines 99, 112: product_features[0, j]
ProductReference(j) == ReadMatrix(product_features, 0, j)

\* line 99
ProductNormAccumulate(f, v) ==
    [f EXCEPT !.product_norm_sq = @ + v * v, !.j = @ + 1]

\* lines 98-99: one iteration of the norm loop.
ProductNormStep ==
    /\ product.pc = "norm"
    /\ product.j < product.num_features
    /\ \E v \in ProductReference(product.j) :
          product' = ProductNormAccumulate(product, v)
    /\ UNCHANGED <<inputs, user, batch, parvars>>

\* lines 100-103: norm of the reference row; the early return on a zero norm.
ProductNormCheck ==
    /\ product.pc = "norm"
    /\ product.j = product.num_features
    /\ LET norm_product == Sqrt(product.product_norm_sq)
       IN product' = [product EXCEPT
                         !.norm_product = norm_product,
                         !.i = 0,
                         !.pc = IF NormIsZero(norm_product) THEN "returned" ELSE "row"]
    /\ UNCHANGED <<inputs, user, batch, parvars>>

\* lines 107-108
ProductRowReset(f) ==
    [f EXCEPT !.dot_product = 0, !.norm_liked_sq = 0, !.j = 0, !.pc = "inner"]

\* lines 106-108: the outer loop takes row i.
ProductRowBegin ==
    /\ product.pc = "row"
    /\ product.i < product.num_liked
    /\ product' = ProductRowReset(product)
    /\ UNCHANGED <<inputs, user, batch, parvars>>

\* lines 112-113
ProductAccumulate(f, v, m) ==
    [f EXCEPT !.dot_product = @ + v * m, !.norm_liked_sq = @ + m * m, !.j = @ + 1]

\* lines 111-113: one iteration of the inner loop.
ProductInnerStep ==
    /\ product.pc = "inner"
    /\ product.j < product.num_features
    /\ \E v \in ProductReference(product.j),
          m \in ReadMatrix(liked_features, product.i, product.j) :
          product' = ProductAccumulate(product, v, m)
    /\ UNCHANGED <<inputs, user, batch, parvars>>

\* line 118
ProductGuard(norm_liked) == NormPositive(norm_liked)

\* lines 115-120 on frame f and result array sims: the array after the row, and
\* whether the division raised on a zero divisor.
ProductRowResult(f, sims) ==
    LET norm_liked == Sqrt(f.norm_liked_sq)
        divisor == NormMul(f.norm_product, norm_liked)
    IN IF ~ProductGuard(norm_liked) THEN [raised |-> FALSE, similarities |-> sims]
       ELSE IF NormIsZero(divisor) THEN [raised |-> TRUE, similarities |-> sims]
       ELSE [raised |-> FALSE,
             similarities |-> [sims EXCEPT ![f.i + 1] = Divide(f.dot_product, divisor)]]

\* lines 115-120: the row's similarity is stored, the outer loop advances.
ProductRowEnd ==
    /\ product.pc = "inner"
    /\ product.j = product.num_features
    /\ LET r == ProductRowResult(product, product.similarities)
       IN product' = IF r.raised
                     THEN [product EXCEPT !.pc = "ZeroDivisionError"]
                     ELSE [product EXCEPT !.similarities = r.similarities,
                                          !.i = @ + 1, !.pc = "row"]
    /\ UNCHANGED <<inputs, user, batch, parvars>>

\* line 122
ProductReturn ==
    /\ product.pc = "row"
    /\ product.i = product.num_liked
    /\ product' = [product EXCEPT !.pc = "returned"]
    /\ UNCHANGED <<inputs, user, batch, parvars>>

\* lines 99, 112: the unchecked read of product_features[0, j] outside the
\* buffer faults.
ProductFault ==
    /\ product.pc \in {"norm", "inner"}
    /\ product.j < product.num_features
    /\ ~MatrixInBounds(product_features, 0, product.j)
    /\ product' = [product EXCEPT !.pc = "fault"]
    /\ UNCHANGED <<inputs, user, batch, parvars>>

ProductNext ==
    \/ ProductEnter
    \/ ProductNormStep
    \/ ProductNormCheck
    \/ ProductRowBegin
    \/ ProductInnerStep
    \/ ProductRowEnd
    \/ ProductReturn

-----------------------------------------------------------------------------
(* compute_dot_product_batch *)

BatchStart ==
    [pc |-> "start", n |-> 0, k |-> 0, m |-> 0, result |-> Zeros2(0, 0),
     i |-> 0, j |-> 0, idx |-> 0, dot_product |-> 0]

\* line 145
BatchColumns == Shape1(matrix_a)

\* lines 143-149: shapes read, result allocated.
BatchEnter ==
    /\ batch.pc = "start"
    /\ batch' = [batch EXCEPT !.pc = "cell",
                              !.n = Shape0(matrix_a),
                              !.k = Shape0(matrix_b),
                              !.m = BatchColumns,
                              !.result = Zeros2(Shape0(matrix_a), Shape0(matrix_b)),
                              !.i = 0, !.j = 0]
    /\ UNCHANGED <<inputs, user, product, parvars>>

\* Mutant: the accumulator is not reset for the cell.
BatchCellResetMissing(f) == [f EXCEPT !.idx = 0, !.pc = "inner"]
\* line 153
BatchCellReset(f) == [f EXCEPT !.dot_product = 0, !.idx = 0, !.pc = "inner"]

\* lines 152-153: the middle loop takes cell (i, j).
BatchCellBegin ==
    /\ batch.pc = "cell"
    /\ batch.i < batch.n
    /\ batch.j < batch.k
    /\ batch' = BatchCellReset(batch)
    /\ UNCHANGED <<inputs, user, product, parvars>>

\* line 155
BatchAccumulate(f, a, b) ==
    [f EXCEPT !.dot_product = @ + a * b, !.idx = @ + 1]

\* lines 154-155: one iteration of the innermost loop.
BatchInnerStep ==
    /\ batch.pc = "inner"
    /\ batch.idx < batch.m
    /\ \E a \in ReadMatrix(matrix_a, batch.i, batch.idx),
          b \in ReadMatrix(matrix_b, batch.j, batch.idx) :
          batch' = BatchAccumulate(batch, a, b)
    /\ UNCHANGED <<inputs, user, product, parvars>>

\* line 156 on frame f and result array res
BatchStore(f, res) ==
    [res EXCEPT !.data[f.i + 1][f.j + 1] = f.dot_product]

\* line 156: the cell is stored, the middle loop advances.
BatchCellEnd ==
    /\ batch.pc = "inner"
    /\ batch.idx = batch.m
    /\ batch' = [batch EXCEPT !.result = BatchStore(batch, batch.result),
                              !.j = @ + 1, !.pc = "cell"]
    /\ UNCHANGED <<inputs, user, product, parvars>>

\* lines 151-152: the middle loop is over, the outer loop advances.
BatchRowEnd ==
    /\ batch.pc = "cell"
    /\ batch.i < batch.n
    /\ batch.j = batch.k
    /\ batch' = [batch EXCEPT !.i = @ + 1, !.j = 0]
    /\ UNCHANGED <<inputs, user, product, parvars>>

\* line 158
BatchReturn ==
    /\ batch.pc = "cell"
    /\ batch.i = batch.n
    /\ batch' = [batch EXCEPT !.pc = "returned"]
    /\ UNCHANGED <<inputs, user, product, parvars>>

\* line 155: the unchecked read of matrix_b[j, idx] past the row's end faults.
BatchFault ==
    /\ batch.pc = "inner"
    /\ batch.idx < batch.m
    /\ ~MatrixInBounds(matrix_b, batch.j, batch.idx)
    /\ batch' = [batch EXCEPT !.pc = "fault"]
    /\ UNCHANGED <<inputs, user, product, parvars>>

BatchNext ==
    \/ BatchEnter
    \/ BatchCellBegin
    \/ BatchInnerStep
    \/ BatchCellEnd
    \/ BatchRowEnd
    \/ BatchReturn

-----------------------------------------------------------------------------
(* A call of one routine *)

Parallel(r, phase) == [routine |-> r, phase |-> phase]
NoParallel == par = Parallel("none", "off") /\ workers = <<>> /\ shared = <<>>
NoUserCall == user_product_matrix = NoMatrix /\ user_vector = NoVector /\ user = IdleFrame
NoProductCall ==
    liked_features = NoMatrix /\ product_features = NoMatrix /\ product = IdleFrame
NoBatchCall == matrix_a = NoMatrix /\ matrix_b = NoMatrix /\ batch = IdleFrame

UserCall ==
    /\ user_product_matrix \in Matrices
    /\ user_vector \in Vectors
    /\ user = UserStart

ProductCall ==
    /\ liked_features \in Matrices
    /\ product_features \in Matrices
    /\ product = ProductStart

BatchCall ==
    /\ matrix_a \in Matrices
    /\ matrix_b \in Matrices
    /\ batch = BatchStart

\* Every read of the call stays inside its buffer: lines 43 and 56 read
\* user_vector[j] for j < num_products.
UserInBounds == Len(user_vector) >= Shape1(user_product_matrix)

\* lines 99 and 112 read product_features[0, j] for j < num_features.
ProductInBounds ==
    \/ Shape1(liked_features) = 0
    \/ /\ Shape0(product_features) >= 1
       /\ Shape1(product_features) >= Shape1(liked_features)

\* line 155 reads matrix_b[j, idx] for idx < m, once per cell of the result.
BatchInBounds ==
    \/ Shape0(matrix_a) = 0
    \/ Shape0(matrix_b) = 0
    \/ Shape1(matrix_b) >= Shape1(matrix_a)

\* The documented preconditions of the routines (docstrings, lines 23-26, 79-82
\* and 135-136).
UserPrecondition == Len(user_vector) = Shape1(user_product_matrix)
ProductPrecondition ==
    /\ Shape0(product_features) = 1
    /\ Shape1(product_features) = Shape1(liked_features)
BatchPrecondition == Shape1(matrix_a) = Shape1(matrix_b)

\* One call of one routine, on any operands of the declared types.
Init ==
    /\ \/ UserCall /\ NoProductCall /\ NoBatchCall
       \/ NoUserCall /\ ProductCall /\ NoBatchCall
       \/ NoUserCall /\ NoProductCall /\ BatchCall
    /\ NoParallel

\* One call of one routine whose reads are all in bounds.
InitInBounds ==
    /\ \/ UserCall /\ UserInBounds /\ NoProductCall /\ NoBatchCall
       \/ NoUserCall /\ ProductCall /\ ProductInBounds /\ NoBatchCall
       \/ NoUserCall /\ NoProductCall /\ BatchCall /\ BatchInBounds
    /\ NoParallel

NextInBounds == UserNext \/ ProductNext \/ BatchNext

Next == NextInBounds \/ UserFault \/ ProductFault \/ BatchFault

\* Any call: out-of-bounds reads yield arbitrary values or fault.
Spec == Init /\ [][Next]_vars

\* Calls with defined behaviour.
SpecInBounds == InitInBounds /\ [][NextInBounds]_vars

-----------------------------------------------------------------------------
(* The two similarity routines called on one matrix and one reference row *)

\* compute_product_similarity(X, R) and compute_user_similarity_matrix(X, R[0])
\* for a one-row R at least as wide as X.
InitEquiv ==
    /\ user_product_matrix \in Matrices
    /\ liked_features = user_product_matrix
    /\ product_features \in Matrices
    /\ Shape0(product_features) = 1
    /\ Shape1(product_features) >= Shape1(liked_features)
    /\ user_vector = product_features.data[1]
    /\ user = UserStart
    /\ product = ProductStart
    /\ NoBatchCall
    /\ NoParallel

NextEquiv == UserNext \/ ProductNext

SpecEquiv == InitEquiv /\ [][NextEquiv]_vars

-----------------------------------------------------------------------------
(* The outer loop of a routine run by one worker per row.  The sequential call  *)
(* runs first; the parallel loop then starts from the frame the statements      *)
(* before the loop left (shapes, reference norm), every worker with accumulators *)
(* of its own, all workers storing into one shared result array.                *)

WorkerFrames(f, rows, pc) == [w \in 1..rows |-> [f EXCEPT !.pc = pc, !.i = w - 1]]

\* lines 33-47, then the loop of line 50 forked.
ParallelUserFork ==
    /\ par = Parallel("user", "waiting")
    /\ user.pc = "returned"
    /\ shared' = Zeros1(user.num_users)
    /\ IF NormIsZero(user.norm_user)
       THEN workers' = <<>> /\ par' = Parallel("user", "joined")
       ELSE /\ workers' = WorkerFrames([UserStart EXCEPT
                                           !.num_users = user.num_users,
                                           !.num_products = user.num_products,
                                           !.user_norm_sq = user.user_norm_sq,
                                           !.norm_user = user.norm_user],
                                       user.num_users, "row")
            /\ par' = Parallel("user", "running")
    /\ UNCHANGED <<inputs, frames>>

\* lines 50-52 by worker w
WorkerUserRowBegin(w) ==
    /\ par = Parallel("user", "running")
    /\ workers[w].pc = "row"
    /\ workers' = [workers EXCEPT ![w] = UserRowReset(@)]
    /\ UNCHANGED <<inputs, frames, par, shared>>

\* lines 55-57 by worker w
WorkerUserInnerStep(w) ==
    /\ par = Parallel("user", "running")
    /\ workers[w].pc = "inner"
    /\ workers[w].j < workers[w].num_products
    /\ \E v \in ReadVector(user_vector, workers[w].j),
          m \in ReadMatrix(user_product_matrix, workers[w].i, workers[w].j) :
          workers' = [workers EXCEPT ![w] = UserAccumulate(@, v, m)]
    /\ UNCHANGED <<inputs, frames, par, shared>>

\* lines 59-64 by worker w
WorkerUserRowEnd(w) ==
    /\ par = Parallel("user", "running")
    /\ workers[w].pc = "inner"
    /\ workers[w].j = workers[w].num_products
    /\ LET r == UserRowResult(workers[w], shared)
       IN /\ shared' = r.similarities
          /\ workers' = [workers EXCEPT
                            ![w].pc = IF r.raised THEN "ZeroDivisionError" ELSE "done"]
    /\ UNCHANGED <<inputs, frames, par>>

\* lines 89-103, then the loop of line 106 forked.
ParallelProductFork ==
    /\ par = Parallel("product", "waiting")
    /\ product.pc = "returned"
    /\ shared' = Zeros1(product.num_liked)
    /\ IF NormIsZero(product.norm_product)
       THEN workers' = <<>> /\ par' = Parallel("product", "joined")
       ELSE /\ workers' = WorkerFrames([ProductStart EXCEPT
                                           !.num_liked = product.num_liked,
                                           !.num_features = product.num_features,
                                           !.product_norm_sq = product.product_norm_sq,
                                           !.norm_product = product.norm_product],
                                       product.num_liked, "row")
            /\ par' = Parallel("product", "running")
    /\ UNCHANGED <<inputs, frames>>

\* lines 106-108 by worker w
WorkerProductRowBegin(w) ==
    /\ par = Parallel("product", "running")
    /\ workers[w].pc = "row"
    /\ workers' = [workers EXCEPT ![w] = ProductRowReset(@)]
    /\ UNCHANGED <<inputs, frames, par, shared>>

\* lines 111-113 by worker w
WorkerProductInnerStep(w) ==
    /\ par = Parallel("product", "running")
    /\ workers[w].pc = "inner"
    /\ workers[w].j < workers[w].num_features
    /\ \E v \in ProductReference(workers[w].j),
          m \in ReadMatrix(liked_features, workers[w].i, workers[w].j) :
          workers' = [workers EXCEPT ![w] = ProductAccumulate(@, v, m)]
    /\ UNCHANGED <<inputs, frames, par, shared>>

\* lines 115-120 by worker w
WorkerProductRowEnd(w) ==
    /\ par = Parallel("product", "running")
    /\ workers[w].pc = "inner"
    /\ workers[w].j = workers[w].num_features
    /\ LET r == ProductRowResult(workers[w], shared)
       IN /\ shared' = r.similarities
          /\ workers' = [workers EXCEPT
                            ![w].pc = IF r.raised THEN "ZeroDivisionError" ELSE "done"]
    /\ UNCHANGED <<inputs, frames, par>>

\* lines 143-149, then the loop of line 151 forked.
ParallelBatchFork ==
    /\ par = Parallel("batch", "waiting")
    /\ batch.pc = "returned"
    /\ shared' = Zeros2(batch.n, batch.k)
    /\ workers' = WorkerFrames([BatchStart EXCEPT !.n = batch.n, !.k = batch.k,
                                                  !.m = batch.m],
                               batch.n, "cell")
    /\ par' = Parallel("batch", "running")
    /\ UNCHANGED <<inputs, frames>>

\* lines 152-153 by worker w
WorkerBatchCellBegin(w) ==
    /\ par = Parallel("batch", "running")
    /\ workers[w].pc = "cell"
    /\ workers[w].j < workers[w].k
    /\ workers' = [workers EXCEPT ![w] = BatchCellReset(@)]
    /\ UNCHANGED <<inputs, frames, par, shared>>

\* lines 154-155 by worker w
WorkerBatchInnerStep(w) ==
    /\ par = Parallel("batch", "running")
    /\ workers[w].pc = "inner"
    /\ workers[w].idx < workers[w].m
    /\ \E a \in ReadMatrix(matrix_a, workers[w].i, workers[w].idx),
          b \in ReadMatrix(matrix_b, workers[w].j, workers[w].idx) :
          workers' = [workers EXCEPT ![w] = BatchAccumulate(@, a, b)]
    /\ UNCHANGED <<inputs, frames, par, shared>>

\* line 156 by worker w
WorkerBatchCellEnd(w) ==
    /\ par = Parallel("batch", "running")
    /\ workers[w].pc = "inner"
    /\ workers[w].idx = workers[w].m
    /\ shared' = BatchStore(workers[w], shared)
    /\ workers' = [workers EXCEPT ![w].j = @ + 1, ![w].pc = "cell"]
    /\ UNCHANGED <<inputs, frames, par>>

\* line 152: the middle loop of worker w's row is over.
WorkerBatchRowEnd(w) ==
    /\ par = Parallel("batch", "running")
    /\ workers[w].pc = "cell"
    /\ workers[w].j = workers[w].k
    /\ workers' = [workers EXCEPT ![w].pc = "done"]
    /\ UNCHANGED <<inputs, frames, par, shared>>

\* The parallel loop ends when every worker has finished its row.
ParallelJoin ==
    /\ par.phase = "running"
    /\ \A w \in DOMAIN workers : workers[w].pc = "done"
    /\ par' = Parallel(par.routine, "joined")
    /\ UNCHANGED <<inputs, frames, workers, shared>>

WorkerNext ==
    \/ ParallelUserFork
    \/ \E w \in DOMAIN workers : WorkerUserRowBegin(w)
    \/ \E w \in DOMAIN workers : WorkerUserInnerStep(w)
    \/ \E w \in DOMAIN workers : WorkerUserRowEnd(w)
    \/ ParallelProductFork
    \/ \E w \in DOMAIN workers : WorkerProductRowBegin(w)
    \/ \E w \in DOMAIN workers : WorkerProductInnerStep(w)
    \/ \E w \in DOMAIN workers : WorkerProductRowEnd(w)
    \/ ParallelBatchFork
    \/ \E w \in DOMAIN workers : WorkerBatchCellBegin(w)
    \/ \E w \in DOMAIN workers : WorkerBatchInnerStep(w)
    \/ \E w \in DOMAIN workers : WorkerBatchCellEnd(w)
    \/ \E w \in DOMAIN workers : WorkerBatchRowEnd(w)
    \/ ParallelJoin

\* One call of one routine on operands that meet its precondition, followed by
\* the parallel run of its loop.
InitPar ==
    /\ \/ /\ UserCall /\ UserPrecondition /\ NoProductCall /\ NoBatchCall
          /\ par = Parallel("user", "waiting")
       \/ /\ NoUserCall /\ ProductCall /\ ProductPrecondition /\ NoBatchCall
          /\ par = Parallel("product", "waiting")
       \/ /\ NoUserCall /\ NoProductCall /\ BatchCall /\ BatchPrecondition
          /\ par = Parallel("batch", "waiting")
    /\ workers = <<>>
    /\ shared = <<>>

NextPar == NextInBounds \/ WorkerNext

SpecPar == InitPar /\ [][NextPar]_vars

-----------------------------------------------------------------------------
(* Reference definitions the results are compared with *)

\* sum over idx in 1..n of x[idx] * y[idx]
RECURSIVE DotUpTo(_, _, _)
DotUpTo(x, y, n) == IF n = 0 THEN 0 ELSE DotUpTo(x, y, n - 1) + x[n] * y[n]

\* Dot product of two sequences of one length.
DotRef(x, y) == DotUpTo(x, y, Len(x))

\* Cosine of the angle between x and y, 0 when either is the zero vector.
CosineRef(x, y) ==
    IF DotRef(x, x) = 0 \/ DotRef(y, y) = 0 THEN Real0
    ELSE Divide(DotRef(x, y), Sqrt(DotRef(x, x) * DotRef(y, y)))

Truncate(y, n) == SubSeq(y, 1, n)
AllZero(x) == \A k \in DOMAIN x : x[k] = 0
Row(m, i) == m.data[i]
RowsOf(m) == 1..Shape0(m)

\* |x| <= 1 for the real x = sgn * sqrt(num / den)
InUnitRange(x) == x.sgn \in {-1, 0, 1} /\ x.num >= 0 /\ x.den >= 1 /\ x.num <= x.den

UserCalled == user.pc # "idle"
ProductCalled == product.pc # "idle"
BatchCalled == batch.pc # "idle"

UserConforms == UserCalled /\ UserPrecondition
ProductConforms == ProductCalled /\ ProductPrecondition
BatchConforms == BatchCalled /\ BatchPrecondition

\* No accumulation step has run and nothing has been returned.
UserNothingDone == user.pc = "start" \/ (user.pc = "norm" /\ user.j = 0)
ProductNothingDone == product.pc = "start" \/ (product.pc = "norm" /\ product.j = 0)
BatchNothingDone ==
    batch.pc = "start" \/ (batch.pc = "cell" /\ batch.i = 0 /\ batch.j = 0)

-----------------------------------------------------------------------------
(* Claims *)

\* C1: a call of any routine whose operands have different column counts runs no
\* accumulation step and never returns a result (it is rejected beforehand).
C1_MismatchRejected ==
    /\ (UserCalled /\ Len(user_vector) # Shape1(user_product_matrix)) => UserNothingDone
    /\ (ProductCalled /\ Shape1(product_features) # Shape1(liked_features))
          => ProductNothingDone
    /\ (BatchCalled /\ Shape1(matrix_b) # Shape1(matrix_a)) => BatchNothingDone

\* C2: compute_product_similarity called with a reference matrix that has not
\* exactly one row computes nothing and never returns a similarity vector.
C2_ReferenceRowsRejected ==
    (ProductCalled /\ Shape0(product_features) # 1) => ProductNothingDone

\* C3: for A (N x M) and B (K x M), every cell the batch routine has stored, and
\* every cell of the returned result, is the direct reduction
\* sum over idx of A[i][idx] * B[j][idx].
C3_BatchIsDirectReduction ==
    (BatchConforms /\ batch.pc # "start") =>
        \A x \in RowsOf(matrix_a), y \in RowsOf(matrix_b) :
            (\/ batch.pc = "returned"
             \/ x - 1 < batch.i
             \/ (x - 1 = batch.i /\ y - 1 < batch.j))
            => batch.result.data[x][y] = DotRef(Row(matrix_a, x), Row(matrix_b, y))

C3_Witness ==
    /\ BatchConforms /\ batch.pc = "returned"
    /\ batch.result.shape = <<2, 2>> /\ Shape1(matrix_a) = 2
    /\ batch.result.data[2][2] = 4
    /\ batch.result.data[1][1] = -2
    /\ batch.result.data[1][2] = 0

\* C4: the division is never evaluated with a zero divisor; an all-zero reference
\* vector gives an all-zero result; an all-zero row i gives result[i] = 0, and
\* every element of the result of a conforming call is the cosine of its own row
\* and the reference vector only.
C4_ZeroNorms ==
    /\ user.pc # "ZeroDivisionError"
    /\ product.pc # "ZeroDivisionError"
    /\ user.pc = "returned" =>
          \A k \in RowsOf(user_product_matrix) :
              /\ AllZero(user_vector) => user.similarities[k] = Real0
              /\ AllZero(Row(user_product_matrix, k)) => user.similarities[k] = Real0
              /\ UserConforms => user.similarities[k] =
                                    CosineRef(Row(user_product_matrix, k), user_vector)
    /\ product.pc = "returned" =>
          \A k \in RowsOf(liked_features) :
              /\ (Shape0(product_features) >= 1 /\ AllZero(Row(product_features, 1)))
                    => product.similarities[k] = Real0
              /\ AllZero(Row(liked_features, k)) => product.similarities[k] = Real0
              /\ ProductConforms => product.similarities[k] =
                                    CosineRef(Row(liked_features, k), Row(product_features, 1))

C4_Witness ==
    /\ UserConforms /\ user.pc = "returned"
    /\ Shape0(user_product_matrix) = 2 /\ Shape1(user_product_matrix) = 2
    /\ AllZero(Row(user_product_matrix, 1))
    /\ user.similarities[1] = Real0
    /\ user.similarities[2] # Real0

\* C5: a call that satisfies the dimension preconditions raises nothing, can
\* always take a step until it returns, and its result has the documented shape:
\* length U, length L, N rows by K columns, whatever the values and also for
\* zero rows or zero columns.
C5_Shape ==
    /\ UserConforms =>
          /\ user.pc \notin {"fault", "ZeroDivisionError"}
          /\ user.pc # "returned" => ENABLED UserNext
          /\ user.pc # "start" =>
                DOMAIN user.similarities = 1..Shape0(user_product_matrix)
    /\ ProductConforms =>
          /\ product.pc \notin {"fault", "ZeroDivisionError"}
          /\ product.pc # "returned" => ENABLED ProductNext
          /\ product.pc # "start" =>
                DOMAIN product.similarities = 1..Shape0(liked_features)
    /\ BatchConforms =>
          /\ batch.pc # "fault"
          /\ batch.pc # "returned" => ENABLED BatchNext
          /\ batch.pc # "start" =>
                /\ batch.result.shape = <<Shape0(matrix_a), Shape0(matrix_b)>>
                /\ DOMAIN batch.result.data = 1..Shape0(matrix_a)
                /\ \A x \in 1..Shape0(matrix_a) :
                      DOMAIN batch.result.data[x] = 1..Shape0(matrix_b)

C5_Witness ==
    /\ BatchConforms /\ batch.pc = "returned"
    /\ Shape0(matrix_a) = 0 /\ Shape0(matrix_b) = 2 /\ Shape1(matrix_a) = 1
    /\ batch.result.shape = <<0, 2>>

\* C6: for a one-row R, compute_product_similarity(X, R) and
\* compute_user_similarity_matrix(X, R[0]) run the same steps: at the same
\* position they hold the same norms, accumulators and partial results, and they
\* return the same vector.
C6_ProductEqualsUser ==
    (user.pc = product.pc /\ user.i = product.i /\ user.j = product.j) =>
        /\ user.similarities = product.similarities
        /\ user.user_norm_sq = product.product_norm_sq
        /\ user.norm_user = product.norm_product
        /\ user.dot_product = product.dot_product
        /\ user.norm_other_sq = product.norm_liked_sq

C6_Witness ==
    /\ user.pc = "returned" /\ product.pc = "returned"
    /\ Shape0(liked_features) = 2
    /\ Shape1(liked_features) = 2 /\ Shape1(product_features) = 2
    /\ product.similarities[1] = [sgn |-> -1, num |-> 1, den |-> 5]
    /\ product.similarities[2] = [sgn |-> 1, num |-> 1, den |-> 1]
    /\ user.similarities = product.similarities

\* C7: no step of any routine changes an input operand.
C7_InputsNeverWritten == [][inputs' = inputs]_vars

C7_Witness ==
    /\ user.pc = "returned"
    /\ Shape0(user_product_matrix) = 2
    /\ user.similarities[1] # Real0
    /\ user.similarities[2] # Real0
    /\ ~AllZero(user_vector)

\* C8: with the iterations of the outer loop run as concurrent workers, one per
\* row and each with its own accumulators, in any interleaving, the joined result
\* equals the result of the sequential loop, and the element of a row is written
\* by that row's worker only (it is still zero until that worker stores it).
C8_ParallelEqualsSequential ==
    /\ par = Parallel("user", "joined") => shared = user.similarities
    /\ par = Parallel("product", "joined") => shared = product.similarities
    /\ par = Parallel("batch", "joined") => shared = batch.result
    /\ (par.phase = "running" /\ par.routine \in {"user", "product"}) =>
          \A w \in DOMAIN workers : workers[w].pc # "done" => shared[w] = Real0
    /\ par = Parallel("batch", "running") =>
          \A w \in DOMAIN workers : \A y \in 1..Shape0(matrix_b) :
              (workers[w].pc # "done" /\ y - 1 >= workers[w].j) => shared.data[w][y] = 0

C8_Witness ==
    /\ par = Parallel("user", "joined")
    /\ Shape0(user_product_matrix) = 2 /\ Shape1(user_product_matrix) = 2
    /\ DOMAIN workers = {1, 2}
    /\ shared[1] = [sgn |-> 1, num |-> 4, den |-> 5]
    /\ shared[2] = [sgn |-> -1, num |-> 1, den |-> 2]

C10_SecondOperandTruncated ==
    /\ (user.pc = "returned" /\ Len(user_vector) > Shape1(user_product_matrix)) =>
          \A k \in RowsOf(user_product_matrix) :
              user.similarities[k] =
                 CosineRef(Row(user_product_matrix, k),
                           Truncate(user_vector, Shape1(user_product_matrix)))
    /\ (/\ product.pc = "returned"
        /\ Shape0(product_features) >= 1
        /\ Shape1(product_features) > Shape1(liked_features)) =>
          \A k \in RowsOf(liked_features) :
              product.similarities[k] =
                 CosineRef(Row(liked_features, k),
                           Truncate(Row(product_features, 1), Shape1(liked_features)))
    /\ (batch.pc = "returned" /\ Shape1(matrix_b) > Shape1(matrix_a)) =>
          \A x \in RowsOf(matrix_a), y \in RowsOf(matrix_b) :
              batch.result.data[x][y] =
                 DotRef(Row(matrix_a, x), Truncate(Row(matrix_b, y), Shape1(matrix_a)))

C10_Witness ==
    /\ user.pc = "returned"
    /\ Shape1(user_product_matrix) = 1 /\ Len(user_vector) = 2
    /\ user_vector[2] # 0
    /\ Shape0(user_product_matrix) = 1
    /\ user.similarities[1] = [sgn |-> 1, num |-> 1, den |-> 1]

=============================================================================
